---- MODULE Spec2Model ----
(***************************************************************************)
(* Model of feed.py: one invocation of the script polls the feed, filters  *)
(* the entries it has not seen, decodes and scrapes them, and rewrites     *)
(* processed_links.json, new_articles.json and new_articles.xml.  The      *)
(* files persist between invocations; everything else is local to one      *)
(* invocation.  The external services (feedparser, googlenewsdecoder,      *)
(* newspaper) are nondeterministic inputs.                                 *)
(*                                                                         *)
(* Strings are modelled by small integers: feed links by 1..NumLinks (the  *)
(* integer order stands for the lexical order of the link strings),        *)
(* titles by 1..NumTitles, decoded URLs by 1..NumUrls.  A publish date is  *)
(* the year of the datetime newspaper reports; None is 0.                  *)
(***************************************************************************)
EXTENDS Integers, Sequences, FiniteSets

\* ---- bounds of the model ----
\* LIMIT_LINKS is 50 in the script (line 185); the model scales it down.
LIMIT_LINKS == 2
NumLinks == 5
NumTitles == 2
NumUrls == 2
\* Entries the feed may hold.
MaxFeed == 2

Links == 1..NumLinks
Titles == 1..NumTitles
Urls == 1..NumUrls

None == 0
\* Years newspaper may report.  A year below 1000 is formatted by
\* strftime("%Y-%m-%d") with fewer than four digits.
Years == {999, 2024}

\* ---- pure helpers ----
Min(a, b) == IF a < b THEN a ELSE b

\* s[:n]
Take(s, n) == SubSeq(s, 1, Min(n, Len(s)))

\* Sequences over S of length at most n
SeqsUpTo(S, n) == UNION {[1..k -> S] : k \in 0..n}

\* ---- records ----
\* A feed entry as built at line 19; published is published_parsed turned
\* into a number by time.mktime, None (0) when the entry has no timestamp.
Published == {None, 1}
FeedEntry == [link : Links, title : Titles, published : Published]

\* An article as built at lines 55-62 (author, text and top_image are
\* carried along unread by everything modelled here and are left out).
\* publish_date is the string strftime produced, modelled by its year.
Article == [title : Titles, publish_date : Years \cup {None}, link : Urls]

\* ---- get_links_from_rss (lines 15-26) ----
PublishedKey(e) == IF e.published # None THEN e.published ELSE 0

\* sorted(links, key=..., reverse=True): stable, descending by key.
RECURSIVE InsertByPublished(_, _)
InsertByPublished(x, s) ==
    IF s = <<>> THEN <<x>>
    ELSE IF PublishedKey(Head(s)) >= PublishedKey(x)
         THEN <<Head(s)>> \o InsertByPublished(x, Tail(s))
         ELSE <<x>> \o s

RECURSIVE SortByPublished(_)
SortByPublished(s) ==
    IF s = <<>> THEN <<>>
    ELSE InsertByPublished(s[Len(s)], SortByPublished(SubSeq(s, 1, Len(s) - 1)))

\* published is read by the sort key only; nothing after line 26 reads it,
\* so the entries handed on keep link and title.
LinkAndTitle(e) == [link |-> e.link, title |-> e.title]

get_links_from_rss(feed, limit) ==
    LET sorted_links == Take(SortByPublished(feed), limit)
    IN [i \in 1..Len(sorted_links) |-> LinkAndTitle(sorted_links[i])]

\* ---- the novelty filter (lines 200-204) ----
\* Mutant of IsNew: the link check is dropped.
IsNewTitleOnly(entry, existing, processed) ==
    ~ \E i \in 1..Len(existing) : existing[i].title = entry.title

\* Mutant of IsNew: "or" in place of "and".
IsNewEither(entry, existing, processed) ==
    \/ ~ \E i \in 1..Len(existing) : existing[i].title = entry.title
    \/ entry.link \notin processed

IsNew(entry, existing, processed) ==
    /\ ~ \E i \in 1..Len(existing) : existing[i].title = entry.title
    /\ entry.link \notin processed

RECURSIVE NoveltyFilter(_, _, _)
NoveltyFilter(links, existing, processed) ==
    IF links = <<>> THEN <<>>
    ELSE (IF IsNew(Head(links), existing, processed) THEN <<Head(links)>> ELSE <<>>)
         \o NoveltyFilter(Tail(links), existing, processed)

\* ---- decode_google_news_links (lines 29-45) ----
\* decoder maps a feed link to what new_decoderv1 answers for it: a
\* result with its status and decoded_url.  An exception has the effect of
\* a falsy status: the item is skipped.
DecodeFailed == [status |-> FALSE, decoded_url |-> None]
DecodeAnswers == {DecodeFailed} \cup [status : {TRUE}, decoded_url : Urls]

RECURSIVE decode_google_news_links(_, _)
decode_google_news_links(links, decoder) ==
    IF links = <<>> THEN <<>>
    ELSE (IF decoder[Head(links).link].status
          THEN <<[link |-> decoder[Head(links).link].decoded_url,
                  title |-> Head(links).title]>>
          ELSE <<>>)
         \o decode_google_news_links(Tail(links), decoder)

\* ---- scrape_articles_from_links (lines 48-65) ----
\* strftime("%Y-%m-%d"): the year is written without padding, so a year
\* below 1000 gives a string with a three-digit year.  The string is
\* modelled by the number its year digits spell.
Strftime(year) == year

\* What newspaper does for a URL: download/parse raises (ok = FALSE), or
\* it reports the title and the publish date (a year, or None).
ScrapeFailed == [ok |-> FALSE, title |-> None, publish_date |-> None]
ScrapeAnswers == {ScrapeFailed} \cup
                 [ok : {TRUE}, title : Titles, publish_date : Years \cup {None}]

RECURSIVE scrape_articles_from_links(_, _)
scrape_articles_from_links(links, scraper) ==
    IF links = <<>> THEN <<>>
    ELSE (IF scraper[Head(links).link].ok
          THEN LET a == scraper[Head(links).link]
               IN <<[title |-> a.title,
                     publish_date |-> IF a.publish_date # None
                                      THEN Strftime(a.publish_date) ELSE None,
                     link |-> Head(links).link]>>
          ELSE <<>>)
         \o scrape_articles_from_links(Tail(links), scraper)

\* ---- processed links: add and cap (lines 228-233) ----
LinksOf(links) == {links[i].link : i \in 1..Len(links)}

\* Mutant of AddLinks: only the first new link is recorded.
AddLinksFirstOnly(processed, links) ==
    processed \cup (IF links = <<>> THEN {} ELSE {links[1].link})

AddLinks(processed, links) == processed \cup LinksOf(links)

\* set(sorted(processed_links, reverse=True)[:LIMIT_LINKS]): the
\* LIMIT_LINKS greatest links in the order of the strings.
Greatest(S, n) == {x \in S : Cardinality({y \in S : y > x}) < n}

\* Mutant of CapLinks: the cap is applied above LIMIT_LINKS, not twice it.
CapLinksEager(processed) ==
    IF Cardinality(processed) > LIMIT_LINKS
    THEN Greatest(processed, LIMIT_LINKS)
    ELSE processed

CapLinks(processed) ==
    IF Cardinality(processed) > LIMIT_LINKS * 2
    THEN Greatest(processed, LIMIT_LINKS)
    ELSE processed

\* ---- merge (lines 240-248) ----
\* datetime.strptime(s, "%Y-%m-%d") accepts only a four-digit year.
Parses(s) == s >= 1000 /\ s <= 9999

\* The sort key: the parsed date, datetime.min (year 1) when absent.
DateKey(a) == IF a.publish_date # None THEN a.publish_date ELSE 1

\* The key function raises ValueError on a date string that does not parse.
SortRaises(articles) ==
    \E i \in 1..Len(articles) :
        articles[i].publish_date # None /\ ~Parses(articles[i].publish_date)

RECURSIVE InsertByDate(_, _)
InsertByDate(x, s) ==
    IF s = <<>> THEN <<x>>
    ELSE IF DateKey(Head(s)) >= DateKey(x)
         THEN <<Head(s)>> \o InsertByDate(x, Tail(s))
         ELSE <<x>> \o s

RECURSIVE SortByDate(_)
SortByDate(s) ==
    IF s = <<>> THEN <<>>
    ELSE InsertByDate(s[Len(s)], SortByDate(SubSeq(s, 1, Len(s) - 1)))

\* Mutant of Merge: the slice [:LIMIT_LINKS] is missing.
MergeNoTruncate(existing, new) == SortByDate(existing \o new)

Merge(existing, new) == Take(SortByDate(existing \o new), LIMIT_LINKS)

\* ---- save_articles_to_xml (lines 80-140) ----
\* One item per article; pubDate is present only for a truthy publish_date
\* (None stands for the omitted node).
XmlItem(a) == [title |-> a.title, link |-> a.link,
               pubDate |-> IF a.publish_date # None THEN a.publish_date ELSE None]

save_articles_to_xml(articles) == [i \in 1..Len(articles) |-> XmlItem(articles[i])]

\* ---- state ----
VARIABLES
    articlesFile,       \* new_articles.json (absent file = <<>>)
    xmlFile,            \* new_articles.xml, as its sequence of items
    processedFile,      \* processed_links.json, as a set
    pc,                 \* where the running invocation is
    existing_articles,  \* locals of __main__
    processed_links,
    all_links,
    new_links,
    decoded_links,
    new_articles,
    decoder,            \* what googlenewsdecoder answers in this invocation
    scraper,            \* what newspaper answers in this invocation
    loaded_links,       \* history: processed_links as loaded at line 190
    xml_at_start,       \* history: new_articles.xml when the invocation began
    writes,             \* history: writes of each file in this invocation
    evicted             \* history: links once persisted and later dropped by the cap

files == <<articlesFile, xmlFile, processedFile>>
locals == <<existing_articles, processed_links, all_links, new_links,
            decoded_links, new_articles, decoder, scraper>>
vars == <<articlesFile, xmlFile, processedFile, pc, existing_articles,
          processed_links, all_links, new_links, decoded_links, new_articles,
          decoder, scraper, loaded_links, xml_at_start, writes, evicted>>

NoWrites == [links |-> 0, json |-> 0, xml |-> 0]
NoAnswers == [x \in {} |-> None]

Init ==
    /\ articlesFile = <<>>
    /\ xmlFile = <<>>
    /\ processedFile = {}
    /\ pc = "start"
    /\ existing_articles = <<>>
    /\ processed_links = {}
    /\ all_links = <<>>
    /\ new_links = <<>>
    /\ decoded_links = <<>>
    /\ new_articles = <<>>
    /\ decoder = NoAnswers
    /\ scraper = NoAnswers
    /\ loaded_links = {}
    /\ xml_at_start = <<>>
    /\ writes = NoWrites
    /\ evicted = {}

\* Lines 187-214: load both files, fetch the feed, filter; exit(0) when
\* nothing is new.
FetchAndFilter ==
    /\ pc = "start"
    /\ \E feed \in SeqsUpTo(FeedEntry, MaxFeed) :
         all_links' = get_links_from_rss(feed, LIMIT_LINKS)
    /\ existing_articles' = articlesFile
    /\ processed_links' = processedFile
    /\ loaded_links' = processedFile
    /\ xml_at_start' = xmlFile
    /\ new_links' = NoveltyFilter(all_links', existing_articles', processed_links')
    /\ pc' = IF new_links' = <<>> THEN "exit" ELSE "decode"
    /\ UNCHANGED <<files, decoded_links, new_articles, decoder, scraper, writes, evicted>>

\* Mutant of HasArticles: the guard is missing.
HasArticlesAlways(articles) == TRUE

\* Line 226, "if new_articles:".
HasArticles(articles) == articles # <<>>

\* Mutant of save_processed_links: the file is not written.
save_processed_links_skipped(links_set) ==
    UNCHANGED <<processedFile, writes>>

\* save_processed_links (lines 177-180), called at line 236.
save_processed_links(links_set) ==
    /\ processedFile' = links_set
    /\ writes' = [writes EXCEPT !.links = @ + 1]

\* Lines 216-237 (and 265-274 when nothing was decoded or scraped): decode
\* and scrape the new links; if any article came out, add the links of all
\* new links to processed_links, cap it and save it.
DecodeScrapeSaveLinks ==
    /\ pc = "decode"
    /\ \E d \in [LinksOf(new_links) -> DecodeAnswers] :
         /\ decoder' = d
         /\ decoded_links' = decode_google_news_links(new_links, d)
    /\ \E s \in [LinksOf(decoded_links') -> ScrapeAnswers] :
         /\ scraper' = s
         /\ new_articles' = scrape_articles_from_links(decoded_links', s)
    /\ IF HasArticles(new_articles')
       THEN /\ processed_links' = CapLinks(AddLinks(processed_links, new_links))
            /\ save_processed_links(processed_links')
            /\ evicted' = (evicted \cup processedFile) \ processedFile'
            /\ pc' = "merge"
       ELSE /\ UNCHANGED <<processed_links, processedFile, writes, evicted>>
            /\ pc' = "exit"
    /\ UNCHANGED <<articlesFile, xmlFile, existing_articles, all_links, new_links,
                   loaded_links, xml_at_start>>

\* Lines 240-254: concatenate, sort by date, truncate, write the JSON
\* store.  A ValueError of strptime in the sort key ends the invocation.
MergeSaveJson ==
    /\ pc = "merge"
    /\ IF SortRaises(existing_articles \o new_articles)
       THEN /\ pc' = "crashed"
            /\ UNCHANGED <<articlesFile, writes>>
       ELSE /\ articlesFile' = Merge(existing_articles, new_articles)
            /\ writes' = [writes EXCEPT !.json = @ + 1]
            /\ pc' = "xml"
    /\ UNCHANGED <<xmlFile, processedFile, locals, loaded_links, xml_at_start, evicted>>

\* Lines 256-274: write the XML export of what the JSON store now holds.
SaveXml ==
    /\ pc = "xml"
    /\ xmlFile' = save_articles_to_xml(articlesFile)
    /\ writes' = [writes EXCEPT !.xml = @ + 1]
    /\ pc' = "exit"
    /\ UNCHANGED <<articlesFile, processedFile, locals, loaded_links, xml_at_start, evicted>>

\* The process has ended; the next invocation starts with fresh locals.
NextInvocation ==
    /\ pc \in {"exit", "crashed"}
    /\ pc' = "start"
    /\ existing_articles' = <<>>
    /\ processed_links' = {}
    /\ all_links' = <<>>
    /\ new_links' = <<>>
    /\ decoded_links' = <<>>
    /\ new_articles' = <<>>
    /\ decoder' = NoAnswers
    /\ scraper' = NoAnswers
    /\ loaded_links' = {}
    /\ xml_at_start' = <<>>
    /\ writes' = NoWrites
    /\ UNCHANGED <<files, evicted>>

Next ==
    \/ FetchAndFilter
    \/ DecodeScrapeSaveLinks
    \/ MergeSaveJson
    \/ SaveXml
    \/ NextInvocation

Spec == Init /\ [][Next]_vars

\* ======================= claims =======================
AfterLinksStep == pc \in {"merge", "xml", "exit", "crashed"}
RunEnded == pc \in {"exit", "crashed"}
Candidates == LinksOf(new_links)
Union == loaded_links \cup Candidates

\* Kept is the n greatest elements of S.
IsGreatestOf(Kept, S, n) ==
    /\ Kept \subseteq S
    /\ Cardinality(Kept) = n
    /\ \A k \in Kept : \A d \in S \ Kept : k > d

\* C1 as stated: after any completed run with at least one novelty-filtered
\* candidate, the persisted ProcessedLinkSet contains every candidate's link,
\* also when resolution or extraction failed for all of them.
C1_Original ==
    (pc = "exit" /\ new_links # <<>>) => Candidates \subseteq processedFile

\* C1 amended: a run that extracted no article leaves the ProcessedLinkSet as
\* loaded; a run that extracted at least one adds the link of every candidate,
\* failed or not, and persists the union, cut to its LIMIT_LINKS greatest
\* links when it holds more than 2 * LIMIT_LINKS.
C1_AddsAllOrNothing ==
    (AfterLinksStep /\ new_links # <<>>) =>
        IF new_articles = <<>>
        THEN processedFile = loaded_links /\ processed_links = loaded_links
        ELSE /\ processed_links = processedFile
             /\ IF Cardinality(Union) <= 2 * LIMIT_LINKS
                THEN processedFile = Union
                ELSE IsGreatestOf(processedFile, Union, LIMIT_LINKS)

\* A candidate whose decoding failed is in the persisted set after a run in
\* which another candidate was extracted.
C1_Witness ==
    /\ pc = "exit"
    /\ new_articles # <<>>
    /\ \E l \in Candidates : ~decoder[l].status /\ l \in processedFile

\* C2 as stated: a link once added to the persisted ProcessedLinkSet is never
\* passed to the resolver by a later run, cap or no cap.
C2_Original ==
    pc = "decode" => Candidates \cap (processedFile \cup evicted) = {}

\* C2 amended: no run passes to the resolver a link that is in the persisted
\* ProcessedLinkSet at that time; a link the cap dropped is no longer
\* protected by the link check.
C2_NotRetriedWhilePersisted ==
    pc = "decode" => Candidates \cap processedFile = {}

\* A feed entry is rejected on its link alone: the link is persisted but no
\* stored article carries the entry's title.
C2_Witness ==
    /\ pc \in {"decode", "exit"}
    /\ writes = NoWrites
    /\ \E i \in 1..Len(all_links) :
         /\ all_links[i].link \in processedFile
         /\ all_links[i].link \notin Candidates
         /\ \A j \in 1..Len(articlesFile) : articlesFile[j].title # all_links[i].title

\* What one more run does to the files when the feed and the answers of the
\* decoder and the scraper are those of the run that just ended.
RerunNewLinks == NoveltyFilter(all_links, articlesFile, processedFile)
RerunArticles ==
    scrape_articles_from_links(decode_google_news_links(RerunNewLinks, decoder), scraper)
RerunProcessed ==
    IF HasArticles(RerunArticles)
    THEN CapLinks(AddLinks(processedFile, RerunNewLinks))
    ELSE processedFile
RerunStore ==
    IF HasArticles(RerunArticles) /\ ~SortRaises(articlesFile \o RerunArticles)
    THEN Merge(articlesFile, RerunArticles)
    ELSE articlesFile
Succeeded ==
    {l \in Candidates :
        /\ decoder[l].status
        /\ scraper[decoder[l].decoded_url].ok}

\* C3: a re-run with the same feed and the same answers leaves both persisted
\* collections unchanged and sends to the resolver no link the previous run
\* processed successfully.
C3_Idempotent ==
    pc = "exit" =>
        /\ LinksOf(RerunNewLinks) \cap Succeeded = {}
        /\ (LinksOf(RerunNewLinks) \subseteq DOMAIN decoder =>
               /\ RerunStore = articlesFile
               /\ RerunProcessed = processedFile)

\* C4: each file is written at most once per run, and a run that extracted
\* no article writes none of them and leaves their contents as they were.
C4_NoWriteWithoutArticles ==
    /\ writes.links <= 1 /\ writes.json <= 1 /\ writes.xml <= 1
    /\ (pc # "start" /\ new_articles = <<>>) =>
           /\ writes = NoWrites
           /\ articlesFile = existing_articles
           /\ xmlFile = xml_at_start
           /\ processedFile = loaded_links

\* A run whose candidates all failed ends with the files, already holding
\* data, untouched.
C4_Witness ==
    /\ pc = "exit"
    /\ new_links # <<>>
    /\ new_articles = <<>>
    /\ processedFile # {}
    /\ articlesFile # <<>>

\* The store just written is the first LIMIT_LINKS elements of the stable
\* descending sort of all: it is sorted, and it picks from all, in order of
\* position among equal keys, elements no smaller than any it leaves out.
IsSortedPrefixOf(store, all) ==
    /\ Len(store) = Min(LIMIT_LINKS, Len(all))
    /\ \A i \in 1..Len(store) : \A j \in 1..Len(store) :
          i < j => DateKey(store[i]) >= DateKey(store[j])
    /\ \E f \in [1..Len(store) -> 1..Len(all)] :
          /\ \A i \in 1..Len(store) : store[i] = all[f[i]]
          /\ \A i \in 1..Len(store) : \A j \in 1..Len(store) :
                (i < j /\ DateKey(store[i]) = DateKey(store[j])) => f[i] < f[j]
          /\ \A i \in 1..Len(store) : \A j \in 1..Len(store) : i # j => f[i] # f[j]
          /\ \A k \in 1..Len(all) :
                (\A i \in 1..Len(store) : f[i] # k) =>
                    \A i \in 1..Len(store) :
                        \/ DateKey(all[k]) < DateKey(store[i])
                        \/ (DateKey(all[k]) = DateKey(store[i]) /\ k > f[i])

\* C5: the persisted ArticleStore never holds more than LIMIT_LINKS articles,
\* and what a run writes is the first LIMIT_LINKS of existing + new sorted by
\* publish_date descending, absent dates last.
C5_StoreBounded ==
    /\ Len(articlesFile) <= LIMIT_LINKS
    /\ writes.json = 1 =>
          /\ IsSortedPrefixOf(articlesFile, existing_articles \o new_articles)
          /\ \A i \in 1..Len(articlesFile) : \A j \in 1..Len(articlesFile) :
                (articlesFile[i].publish_date = None /\ i < j)
                    => articlesFile[j].publish_date = None

\* A write that had to drop an article, with an undated article among those
\* merged.
C5_Witness ==
    /\ pc = "xml"
    /\ Len(existing_articles) + Len(new_articles) > LIMIT_LINKS
    /\ \E i \in 1..Len(existing_articles) : existing_articles[i].publish_date = None
    /\ \E i \in 1..Len(new_articles) : new_articles[i].publish_date # None

\* C6 as stated: the ProcessedLinkSet held and persisted at the end of a run
\* is a superset of the one loaded at its start.
C6_Original ==
    AfterLinksStep => (loaded_links \subseteq processed_links /\ loaded_links \subseteq processedFile)

\* C6 amended: it is a superset of the loaded set unless the run, having
\* added its candidates, holds more than 2 * LIMIT_LINKS links; then it is
\* cut to LIMIT_LINKS links of the union and loaded links can be dropped.
C6_GrowsUnlessCapped ==
    (pc # "start") =>
        IF HasArticles(new_articles) /\ Cardinality(Union) > 2 * LIMIT_LINKS
        THEN /\ processedFile \subseteq Union
             /\ Cardinality(processedFile) = LIMIT_LINKS
             /\ processed_links = processedFile
        ELSE /\ loaded_links \subseteq processed_links
             /\ loaded_links \subseteq processedFile

\* A run that loaded links and persisted strictly more.
C6_Witness ==
    /\ pc = "exit"
    /\ writes.links = 1
    /\ loaded_links # {}
    /\ loaded_links \subseteq processedFile
    /\ loaded_links # processedFile

\* C7: the filter returns the subsequence, in feed order, of the entries
\* whose title is no stored title and whose link is not processed, and
\* changes neither collection.
C7_FilterExact ==
    LET Keep(e) == /\ \A i \in 1..Len(existing_articles) :
                         existing_articles[i].title # e.title
                   /\ e.link \notin loaded_links
    IN (pc # "start") =>
          /\ new_links = SelectSeq(all_links, Keep)
          /\ (pc = "decode" =>
                 /\ articlesFile = existing_articles
                 /\ processedFile = loaded_links
                 /\ processed_links = loaded_links)

\* Of two entries the first is dropped on its title although its link is
\* not processed, and the second is kept.
C7_Witness ==
    /\ pc = "decode"
    /\ Len(all_links) = 2
    /\ all_links[1].link \notin loaded_links
    /\ \E i \in 1..Len(existing_articles) : existing_articles[i].title = all_links[1].title
    /\ new_links = <<all_links[2]>>

\* C8: a publish_date string that does not parse never aborts the run and
\* never leaves the processed-link file updated while the store is not.
C8_DateParseNonFatal ==
    /\ pc # "crashed"
    /\ (RunEnded /\ writes.links = 1) => (writes.json = 1 /\ writes.xml = 1)

\* C9 as stated: the ArticleStore (JSON and XML) is persisted before the
\* ProcessedLinkSet.
C9_Original ==
    writes.links = 1 => (writes.json = 1 /\ writes.xml = 1)

\* C9 amended: the ProcessedLinkSet is persisted first, then the JSON store,
\* then the XML export; whenever the store of this run is on disk, so are
\* this run's processed links.
C9_LinksThenJsonThenXml ==
    /\ writes.xml = 1 => writes.json = 1
    /\ writes.json = 1 => (writes.links = 1 /\ processedFile = processed_links)
    /\ (writes.json = 1 /\ Cardinality(Union) <= 2 * LIMIT_LINKS)
          => Candidates \subseteq processedFile

\* The links are on disk and the store is not yet.
C9_Witness ==
    /\ pc = "merge"
    /\ writes.links = 1
    /\ writes.json = 0
    /\ processedFile # loaded_links
    /\ articlesFile = existing_articles

\* C10: the persisted ArticleStore never holds two articles with the same
\* link or the same title.
C10_NoDuplicates ==
    \A i \in 1..Len(articlesFile) : \A j \in 1..Len(articlesFile) :
        i < j => /\ articlesFile[i].link # articlesFile[j].link
                 /\ articlesFile[i].title # articlesFile[j].title

====
